---- MODULE Spec2Model ----
(***************************************************************************)
(* class1_code.ipynb: the churn notebook as a state machine.               *)
(*                                                                         *)
(* The state is the kernel's namespace (df, X_train, preprocessor, the six *)
(* estimators, their predictions and reports) plus the environment the     *)
(* notebook reads (the CSV file, the seeded random stream, whether a       *)
(* library fit raises).  One action per code cell; a cell that raises      *)
(* keeps the bindings made by the statements before the raise, as Python   *)
(* does.                                                                   *)
(*                                                                         *)
(* Cell values.  Every table cell is a record [k, v] with v an integer:    *)
(*   k = "str"  a text value; v identifies the text                        *)
(*   k = "num"  a number v                                                 *)
(*   k = "nan"  a missing value (NaN)                                      *)
(*   k = "gone" the cell of a column that was dropped                      *)
(* TotalCharges text: v >= 0 is the decimal text of v, Blank is " ",       *)
(* Junk is text that is no number.  TotalCharges numbers are kept in half  *)
(* units (the number 7 is Num(14)), so that the median of an even number   *)
(* of integer charges is exact.  Churn text: No, Yes, Maybe (any other     *)
(* text).  Contract and customerID text: v is the category code, ordered   *)
(* as the texts sort.                                                      *)
(***************************************************************************)
EXTENDS Integers, Sequences, FiniteSets, TLC

VARIABLES
    fileExists,          \* environment: class1_dataset.csv is there
    csv,                 \* environment: the file's rows
    seed,                \* environment: the stream random_state=42 yields
    fitRaises,           \* environment: the estimators whose fit raises
    mode,                \* how cells are scheduled: "runall" | "kernel" | "parallel"
    pc,                  \* "runall": the position of the next cell
    err,                 \* the exception the last executed cell raised
    diag,                \* the load cell printed its ERROR line
    df,
    churn_counts,
    X, y, features, preprocessor,
    X_train, X_test, y_train, y_test,
    X_train_processed, X_test_processed,
    est, y_pred, acc, cm, fig,
    mpc                  \* "parallel": each trainer's position

envVars  == <<fileExists, csv, seed, fitRaises, mode>>
prepVars == <<X, y, features, preprocessor, X_train, X_test, y_train, y_test,
              X_train_processed, X_test_processed>>
dataVars == <<X_train_processed, X_test_processed, y_train, y_test>>
modelVars == <<est, y_pred, acc, cm, fig>>
vars == <<envVars, pc, err, diag, df, churn_counts, prepVars, modelVars, mpc>>

(***************************************************************************)
(* Bounds of the model.                                                    *)
(***************************************************************************)
MaxRows == 6
MaxSeed == 2
MaxCharge == 3

(***************************************************************************)
(* Names and codes.                                                        *)
(***************************************************************************)
Models == {"lr", "dt", "svc", "rf", "gb", "mlp"}

NoErr == "none"

Str(v) == [k |-> "str", v |-> v]
Num(v) == [k |-> "num", v |-> v]
NaN    == [k |-> "nan", v |-> 0]
Gone   == [k |-> "gone", v |-> 0]

Blank == 0 - 1
Junk  == 0 - 2
No    == 0
Yes   == 1
Maybe == 2

IsMissing(c) == c.k = "nan"

Min(a, b) == IF a < b THEN a ELSE b

(***************************************************************************)
(* Sequence helpers (what numpy and pandas do on a column).                *)
(***************************************************************************)
RECURSIVE SumSeq(_)
SumSeq(s) == IF Len(s) = 0 THEN 0 ELSE Head(s) + SumSeq(Tail(s))

RECURSIVE Insert(_, _)
Insert(x, s) ==
    IF Len(s) = 0 THEN <<x>>
    ELSE IF x <= Head(s) THEN <<x>> \o s
    ELSE <<Head(s)>> \o Insert(x, Tail(s))

RECURSIVE SortInts(_)
SortInts(s) == IF Len(s) = 0 THEN <<>> ELSE Insert(Head(s), SortInts(Tail(s)))

RECURSIVE SetToSortedSeq(_)
SetToSortedSeq(S) ==
    IF S = {} THEN <<>>
    ELSE LET m == CHOOSE x \in S : \A z \in S : x <= z
         IN <<m>> \o SetToSortedSeq(S \ {m})

Column(rows, c) == [i \in 1..Len(rows) |-> rows[i][c]]

Count(s, v) == Cardinality({i \in 1..Len(s) : s[i] = v})

(***************************************************************************)
(* Loader cell: pd.read_csv.                                               *)
(* A column whose every field is the text of a number is read as float64,  *)
(* any other column as object (text).  The row label is the RangeIndex.    *)
(***************************************************************************)
AllNumericText(rows) == \A i \in 1..Len(rows) : rows[i].TotalCharges >= 0

Unbound == [bound |-> FALSE, cols |-> {}, rows |-> <<>>]

read_csv(file) ==
    [bound |-> TRUE,
     cols  |-> {"customerID", "TotalCharges", "Contract", "Churn"},
     rows  |-> [i \in 1..Len(file) |->
                  [idx          |-> i - 1,
                   customerID   |-> Str(file[i].customerID),
                   TotalCharges |-> IF AllNumericText(file) /\ Len(file) > 0
                                    THEN Num(2 * file[i].TotalCharges)
                                    ELSE Str(file[i].TotalCharges),
                   Contract     |-> Str(file[i].Contract),
                   Churn        |-> Str(file[i].Churn)]]]

(***************************************************************************)
(* Cleaner cell.                                                           *)
(***************************************************************************)
\* df.drop('customerID', axis=1)
drop(d, c) ==
    [d EXCEPT !.cols = @ \ {c},
              !.rows = [i \in 1..Len(d.rows) |-> [d.rows[i] EXCEPT ![c] = Gone]]]

\* pd.to_numeric(., errors='coerce') on one cell
to_numeric(c) ==
    IF c.k = "str" THEN (IF c.v >= 0 THEN Num(2 * c.v) ELSE NaN) ELSE c

\* Series.median(): skips NaN; NaN when nothing is left
Present(col) == SelectSeq(col, LAMBDA c : ~IsMissing(c))

middle(vals, n) ==
    IF n = 0 THEN NaN
    ELSE IF n % 2 = 1 THEN Num(vals[(n + 1) \div 2])
    ELSE Num((vals[n \div 2] + vals[n \div 2 + 1]) \div 2)

median(col) ==
    middle(SortInts([j \in 1..Len(Present(col)) |-> Present(col)[j].v]),
           Len(Present(col)))

\* Series.fillna(value): a NaN value fills nothing
fillna(col, value) ==
    [i \in 1..Len(col) |-> IF IsMissing(col[i]) THEN value ELSE col[i]]

\* Series.map({'No': 0, 'Yes': 1}) on one cell: a key the dict lacks gives NaN
map_churn(c) ==
    IF c = Str(No) THEN Num(0)
    ELSE IF c = Str(Yes) THEN Num(1)
    ELSE NaN

SetColumn(d, c, col) ==
    [d EXCEPT !.rows = [i \in 1..Len(d.rows) |-> [d.rows[i] EXCEPT ![c] = col[i]]]]

\* the statements of the cell after the drop (lines 109-120)
coerce_charges(d) ==
    SetColumn(d, "TotalCharges",
              [i \in 1..Len(d.rows) |-> to_numeric(d.rows[i].TotalCharges)])

impute_charges(d) ==
    SetColumn(d, "TotalCharges",
              fillna(Column(d.rows, "TotalCharges"), median(Column(d.rows, "TotalCharges"))))

map_labels(d) ==
    SetColumn(d, "Churn", [i \in 1..Len(d.rows) |-> map_churn(d.rows[i].Churn)])

clean_columns(d) == map_labels(impute_charges(coerce_charges(d)))

\* Series.value_counts(): the count of each value that is not NaN
value_counts(col) ==
    LET labels == {col[i] : i \in {j \in 1..Len(col) : ~IsMissing(col[j])}}
    IN [bound |-> TRUE,
        counts |-> {<<l, Count(col, l)>> : l \in labels}]

NoCounts == [bound |-> FALSE, counts |-> {}]

\* churn_counts.get(label, 0)
counts_get(vc, label) ==
    IF \E p \in vc.counts : p[1] = label
    THEN (CHOOSE p \in vc.counts : p[1] = label)[2]
    ELSE 0

(***************************************************************************)
(* Feature cell, part 1: X, y and the column lists (lines 240-245).        *)
(***************************************************************************)
FeatureCols == <<"customerID", "TotalCharges", "Contract">>

\* a column's dtype: object when it holds text, float64/int64 otherwise
dtype(d, c) ==
    IF Len(d.rows) = 0 \/ \E i \in 1..Len(d.rows) : d.rows[i][c].k = "str"
    THEN "object" ELSE "float64"

\* X.select_dtypes(include=['object', 'category']).columns
categorical_features(d) ==
    SelectSeq(FeatureCols, LAMBDA c : c \in d.cols /\ dtype(d, c) = "object")

\* X.select_dtypes(include=['int64', 'float64']).columns
numerical_features(d) ==
    SelectSeq(FeatureCols, LAMBDA c : c \in d.cols /\ dtype(d, c) # "object")

\* y = df['Churn']: the labels with their row labels
churn_series(d) ==
    [bound |-> TRUE,
     rows |-> [i \in 1..Len(d.rows) |-> [idx |-> d.rows[i].idx, label |-> d.rows[i].Churn]]]

NoSeries == [bound |-> FALSE, rows |-> <<>>]

LabelsOf(series) == [i \in 1..Len(series.rows) |-> series.rows[i].label]

(***************************************************************************)
(* Feature cell, part 2: train_test_split(X, y, test_size=0.2,             *)
(* random_state=42, stratify=y) (line 265).                                *)
(* sklearn: n_test = ceil(test_size * n), n_train = n - n_test; the class  *)
(* counts of the train part are the largest-remainder apportionment of     *)
(* n_train (_approximate_mode), ties broken by the random stream; the test *)
(* part gets what is left of each class.  The random stream is a fixed but *)
(* unknown function of the seed: here rotation by `seed`.                  *)
(***************************************************************************)
TestSizeNum == 1
TestSizeDen == 5

n_test_of(n) == (n * TestSizeNum + TestSizeDen - 1) \div TestSizeDen
n_train_of(n) == n - n_test_of(n)

\* np.unique(labels): the distinct labels in sorted order
ClassesOf(labels) ==
    LET vs == SetToSortedSeq({labels[i].v : i \in 1..Len(labels)})
    IN [j \in 1..Len(vs) |-> CHOOSE c \in {labels[i] : i \in 1..Len(labels)} : c.v = vs[j]]

\* positions (ascending) of the rows of one class
Members(labels, c) == SetToSortedSeq({i \in 1..Len(labels) : labels[i] = c})

CountsFor(labels, cl) == [j \in 1..Len(cl) |-> Len(Members(labels, cl[j]))]

ClassCounts(labels) == CountsFor(labels, ClassesOf(labels))

\* rng.choice(inds, size=k, replace=False)
RngChoice(inds, k, sd) ==
    {inds[((sd + j) % Len(inds)) + 1] : j \in 0..(k - 1)}

Reverse(s) == [i \in 1..Len(s) |-> s[Len(s) + 1 - i]]

RECURSIVE AddRemainders(_, _, _, _, _)
AddRemainders(floored, rem, need, vals, sd) ==
    IF need = 0 \/ Len(vals) = 0 THEN floored
    ELSE LET inds    == SetToSortedSeq({i \in 1..Len(rem) : rem[i] = Head(vals)})
             add_now == Min(Len(inds), need)
             chosen  == RngChoice(inds, add_now, sd)
             next    == [i \in 1..Len(floored) |->
                            floored[i] + (IF i \in chosen THEN 1 ELSE 0)]
         IN AddRemainders(next, rem, need - add_now, Tail(vals), sd)

\* sklearn.utils._approximate_mode(class_counts, n_draws, rng)
approximate_mode(counts, n_draws, sd) ==
    LET total   == SumSeq(counts)
        floored == [i \in 1..Len(counts) |-> (counts[i] * n_draws) \div total]
        rem     == [i \in 1..Len(counts) |-> (counts[i] * n_draws) % total]
        need    == n_draws - SumSeq(floored)
        vals    == Reverse(SetToSortedSeq({rem[i] : i \in 1..Len(rem)}))
    IN AddRemainders(floored, rem, need, vals, sd)

\* why the split raises ValueError, if it does
raises_for(n, labels, counts) ==
    \/ n_train_of(n) = 0
    \/ \E i \in 1..n : IsMissing(labels[i])
    \/ \E j \in 1..Len(counts) : counts[j] < 2
    \/ n_train_of(n) < Len(counts)
    \/ n_test_of(n) < Len(counts)

split_raises(labels) == raises_for(Len(labels), labels, ClassCounts(labels))

\* rng.permutation of one class's rows
Permuted(members, sd) ==
    [j \in 1..Len(members) |-> members[((sd + j - 1) % Len(members)) + 1]]

\* the positions of the train rows and of the test rows
\* the rows each class gives to the train part (the first n_i of its
\* permutation) and to the test part (the next t_i)
pick(labels, cl, n_i, t_i, sd) ==
    [train |-> UNION {{Permuted(Members(labels, cl[j]), sd)[q] : q \in 1..n_i[j]}
                        : j \in 1..Len(cl)},
     test  |-> UNION {{Permuted(Members(labels, cl[j]), sd)[q]
                          : q \in (n_i[j] + 1)..(n_i[j] + t_i[j])}
                        : j \in 1..Len(cl)}]

allot_test(labels, cl, counts, n_i, sd) ==
    pick(labels, cl, n_i,
         approximate_mode([j \in 1..Len(counts) |-> counts[j] - n_i[j]],
                          n_test_of(Len(labels)), sd),
         sd)

allot_train(labels, cl, counts, sd) ==
    allot_test(labels, cl, counts,
               approximate_mode(counts, n_train_of(Len(labels)), sd), sd)

\* a split without stratify=y: the first rows train, the last rows test
split_indices_unstratified(labels, sd) ==
    [train |-> 1..n_train_of(Len(labels)),
     test  |-> (n_train_of(Len(labels)) + 1)..Len(labels)]

\* the positions of the train rows and of the test rows
split_indices(labels, sd) ==
    allot_train(labels, ClassesOf(labels), ClassCounts(labels), sd)

Take(frame, positions) ==
    LET ps == SetToSortedSeq(positions)
    IN [frame EXCEPT !.rows = [q \in 1..Len(ps) |-> frame.rows[ps[q]]]]

\* a split that shuffles X and y apart: the labels are dealt out in reverse
take_parts_unpaired(Xf, ys, ix) ==
    [X_train |-> Take(Xf, ix.train), X_test |-> Take(Xf, ix.test),
     y_train |-> Take([ys EXCEPT !.rows = Reverse(@)], ix.train),
     y_test  |-> Take([ys EXCEPT !.rows = Reverse(@)], ix.test)]

\* X_train, X_test, y_train, y_test
take_parts(Xf, ys, ix) ==
    [X_train |-> Take(Xf, ix.train), X_test |-> Take(Xf, ix.test),
     y_train |-> Take(ys, ix.train), y_test |-> Take(ys, ix.test)]

train_test_split(Xf, ys, sd) == take_parts(Xf, ys, split_indices(LabelsOf(ys), sd))

(***************************************************************************)
(* Feature cell, part 3: the ColumnTransformer (lines 251-269).            *)
(* StandardScaler keeps, per numeric column, the mean and the standard     *)
(* deviation of the rows it was fitted on; they are held here as the exact *)
(* triple (n, sum, sum of squares) over the cells that are not NaN:        *)
(* mean = sum / n, std^2 = (n * sumsq - sum^2) / n^2.  OneHotEncoder keeps,*)
(* per categorical column, the sorted categories it was fitted on and      *)
(* drops the first.                                                        *)
(***************************************************************************)
Unfitted(num, cat) ==
    [bound |-> TRUE, fitted |-> FALSE, calls |-> <<>>,
     num |-> num, cat |-> cat, stats |-> <<>>, vocab |-> <<>>]

NoTransformer ==
    [bound |-> FALSE, fitted |-> FALSE, calls |-> <<>>,
     num |-> <<>>, cat |-> <<>>, stats |-> <<>>, vocab |-> <<>>]

\* StandardScaler.fit on one column
moments(vals) ==
    [n |-> Len(vals), sum |-> SumSeq(vals),
     sumsq |-> SumSeq([j \in 1..Len(vals) |-> vals[j] * vals[j]])]

scaler_fit(col) == moments([j \in 1..Len(Present(col)) |-> Present(col)[j].v])

\* OneHotEncoder.fit on one column: categories_
encoder_fit(col) == SetToSortedSeq({col[i].v : i \in 1..Len(col)})

\* the state fit computes from the rows it is given
fit_state(num, cat, rows) ==
    [stats |-> [j \in 1..Len(num) |-> scaler_fit(Column(rows, num[j]))],
     vocab |-> [j \in 1..Len(cat) |-> encoder_fit(Column(rows, cat[j]))]]

\* preprocessor.fit(rows)
store(pre, state, what) ==
    [pre EXCEPT !.fitted = TRUE,
                !.calls = Append(@, [op |-> "fit", arg |-> what]),
                !.stats = state.stats,
                !.vocab = state.vocab]

fit(pre, rows, what) == store(pre, fit_state(pre.num, pre.cat, rows), what)

\* (x - mean) / scale as the exact pair numer / sqrt(den2); scale is 1 when
\* the standard deviation is 0 (den2 = 0: numer / n); NaN stays NaN
scale_cell(st, x) ==
    IF IsMissing(x) \/ st.n = 0
    THEN [nan |-> TRUE, numer |-> 0, den2 |-> 0, n |-> 0]
    ELSE [nan |-> FALSE, numer |-> st.n * x.v - st.sum,
          den2 |-> st.n * st.sumsq - st.sum * st.sum, n |-> st.n]

\* OneHotEncoder left at its default, handle_unknown='error'
handle_unknown_error == "error"

\* OneHotEncoder(handle_unknown='ignore', drop='first')   (line 252)
handle_unknown == "ignore"

\* the cells of the categorical columns whose category fit never saw
Unseen(pre, rows) ==
    {<<i, j>> \in (1..Len(rows)) \X (1..Len(pre.cat)) :
        \A c \in 1..Len(pre.vocab[j]) : pre.vocab[j][c] # rows[i][pre.cat[j]].v}

\* OneHotEncoder.transform raises ValueError on an unseen category unless
\* handle_unknown is 'ignore'
transform_raises(pre, rows) == handle_unknown # "ignore" /\ Unseen(pre, rows) # {}

\* the indicators of the kept categories; all zero for the dropped first
\* category and for a category fit never saw (handle_unknown='ignore')
encode_cell(categories, x) ==
    [j \in 1..(Len(categories) - 1) |-> IF x.v = categories[j + 1] THEN 1 ELSE 0]

transform_row(pre, row) ==
    [num |-> [j \in 1..Len(pre.num) |-> scale_cell(pre.stats[j], row[pre.num[j]])],
     cat |-> [j \in 1..Len(pre.cat) |-> encode_cell(pre.vocab[j], row[pre.cat[j]])]]

\* preprocessor.transform(rows): the processed matrix
transform(pre, rows) ==
    [bound |-> TRUE, rows |-> [i \in 1..Len(rows) |-> transform_row(pre, rows[i])]]

\* the calls made on the transformer since it was constructed, in order
logged(pre, call) == [pre EXCEPT !.calls = Append(@, call)]

\* X_train_processed = preprocessor.fit_transform(X_train)   (line 268)
transformed(pre, rows, what) ==
    [pre |-> logged(pre, [op |-> "transform", arg |-> what]), out |-> transform(pre, rows)]

fit_transform(pre, rows, what) == transformed(fit(pre, rows, what), rows, what)

\* fit_transform on the test partition in place of transform
transform_test_refit(pre, rows) == fit_transform(pre, rows, "X_test")

\* X_test_processed = preprocessor.transform(X_test)          (line 269)
transform_test(pre, rows) == transformed(pre, rows, "X_test")

NoMatrix == [bound |-> FALSE, rows |-> <<>>]

\* what the feature cell binds, statement by statement
NoSplit ==
    [X_train |-> Unbound, X_test |-> Unbound, y_train |-> NoSeries, y_test |-> NoSeries]

bound_names(Xf, ys, raised, pre, sp, Xtr, Xte) ==
    [X |-> Xf, y |-> ys,
     features |-> [num |-> numerical_features(Xf), cat |-> categorical_features(Xf)],
     raised |-> raised, preprocessor |-> pre, split |-> sp,
     X_train_processed |-> Xtr, X_test_processed |-> Xte]

\* line 269
after_fit_transform(Xf, ys, sp, tr, te) ==
    bound_names(Xf, ys, FALSE, te.pre, sp, tr.out, te.out)

\* line 268
after_split_fitted(Xf, ys, sp, tr) ==
    IF transform_raises(tr.pre, sp.X_test.rows)
    THEN bound_names(Xf, ys, TRUE, tr.pre, sp, tr.out, NoMatrix)
    ELSE after_fit_transform(Xf, ys, sp, tr, transform_test(tr.pre, sp.X_test.rows))

after_split(Xf, ys, pre0, sp) ==
    after_split_fitted(Xf, ys, sp, fit_transform(pre0, sp.X_train.rows, "X_train"))

\* lines 251-265
after_xy(Xf, ys, pre0, sd) ==
    IF split_raises(LabelsOf(ys))
    THEN bound_names(Xf, ys, TRUE, pre0, NoSplit, NoMatrix, NoMatrix)
    ELSE after_split(Xf, ys, pre0, train_test_split(Xf, ys, sd))

with_columns(Xf, ys, sd) ==
    after_xy(Xf, ys, Unfitted(numerical_features(Xf), categorical_features(Xf)), sd)

\* lines 240-241
feature_cell(d, sd) == with_columns(drop(d, "Churn"), churn_series(d), sd)

(***************************************************************************)
(* Model cells.  The six estimators are library objects used through       *)
(* fit(features, labels) and predict(features).  What fit learns is a      *)
(* fixed function of the estimator's kind and parameters (random_state=42) *)
(* and of the training data, and what predict answers is a fixed function  *)
(* of that and of the row, always one of the labels seen in training.      *)
(* The learned state is held as a digest of the training data, and the     *)
(* answer is computed from kind, digest and row.                           *)
(***************************************************************************)
KindCode == [lr |-> 0, dt |-> 1, svc |-> 2, rf |-> 3, gb |-> 4, mlp |-> 5]

RowCode(r) ==
    SumSeq([j \in 1..Len(r.num) |->
              IF r.num[j].nan THEN 1 ELSE IF r.num[j].numer > 0 THEN 2 ELSE 0])
    + SumSeq([j \in 1..Len(r.cat) |-> 3 * SumSeq(r.cat[j])])

Digest(matrix, labels) ==
    SumSeq([i \in 1..Len(labels) |-> (labels[i].v + 1) * (i + RowCode(matrix.rows[i]))])

NoEstimator == [bound |-> FALSE, fitted |-> FALSE, kind |-> "", classes |-> <<>>, code |-> 0]

\* e.g. lr = LogisticRegression(max_iter=1000, random_state=42, solver='liblinear')
new_estimator(m) == [NoEstimator EXCEPT !.bound = TRUE, !.kind = m]

\* m.fit(X_train_processed, y_train)
fit_estimator(e, matrix, ys) ==
    [e EXCEPT !.fitted = TRUE,
              !.classes = ClassesOf(LabelsOf(ys)),
              !.code = Digest(matrix, LabelsOf(ys))]

predict_row(e, r) ==
    e.classes[((KindCode[e.kind] + e.code + RowCode(r)) % Len(e.classes)) + 1]

\* m.predict(X_test_processed)
predict(e, matrix) ==
    [bound |-> TRUE, labels |-> [i \in 1..Len(matrix.rows) |-> predict_row(e, matrix.rows[i])]]

NoPrediction == [bound |-> FALSE, labels |-> <<>>]

\* accuracy_score(y_true, y_pred): correct / total, kept as the exact pair
accuracy_score(y_true, y_pr) ==
    [bound |-> TRUE,
     correct |-> Cardinality({i \in 1..Len(y_true) : y_true[i] = y_pr[i]}),
     total |-> Len(y_true)]

NoAccuracy == [bound |-> FALSE, correct |-> 0, total |-> 0]

\* confusion_matrix(y_true, y_pred): rows are the true labels, columns the
\* predicted ones, both over the sorted labels that occur in either vector
confusion_matrix(y_true, y_pr) ==
    LET labels == ClassesOf(y_true \o y_pr)
    IN [bound |-> TRUE,
        labels |-> labels,
        z |-> [a \in 1..Len(labels) |-> [b \in 1..Len(labels) |->
                 Cardinality({i \in 1..Len(y_true) :
                                 y_true[i] = labels[a] /\ y_pr[i] = labels[b]})]]]

NoConfusion == [bound |-> FALSE, labels |-> <<>>, z |-> <<>>]

\* ff.create_annotated_heatmap(z=cm, x=['No Churn', 'Churn'], y=[...]) raises
\* unless z is as wide as x and as high as y
heatmap_raises(c) == ~(Len(c.z) = 2 /\ \A a \in 1..Len(c.z) : Len(c.z[a]) = 2)

(***************************************************************************)
(* The input files of the model: n rows, the first k of them churners, the *)
(* last row's label optionally some other text, and a pattern for the      *)
(* TotalCharges and Contract columns.                                      *)
(***************************************************************************)
ChargePatterns == {"plain", "head_blank", "tail_junk", "all_blank"}
ContractPatterns == {"same", "head_other", "tail_other", "both_other"}

ChargeText(p, i, n) ==
    CASE p = "all_blank" -> Blank
      [] p = "head_blank" /\ i = 1 -> Blank
      [] p = "tail_junk" /\ i = n -> Junk
      [] OTHER -> i % (MaxCharge + 1)

ContractText(p, i, n) ==
    CASE p \in {"head_other", "both_other"} /\ i = 1 -> 1
      [] p = "tail_other" /\ i = n -> 1
      [] p = "both_other" /\ i = n -> 2
      [] OTHER -> 0

MakeFile(n, k, odd, tp, cp) ==
    [i \in 1..n |->
       [customerID   |-> i,
        TotalCharges |-> ChargeText(tp, i, n),
        Contract     |-> ContractText(cp, i, n),
        Churn        |-> IF odd /\ i = n THEN Maybe ELSE IF i <= k THEN Yes ELSE No]]

Files ==
    {MakeFile(n, k, odd, tp, cp) :
        n \in 0..MaxRows, k \in 0..MaxRows, odd \in BOOLEAN,
        tp \in ChargePatterns, cp \in ContractPatterns}

\* longer files with two churners only
SkewFiles ==
    {MakeFile(MaxRows + 3, 2, FALSE, tp, cp) :
        tp \in ChargePatterns, cp \in ContractPatterns}

Seeds == 0..(MaxSeed - 1)

\* no fit raises, or the fit of one estimator does
FitFailures == {{}} \cup {{m} : m \in Models}

(***************************************************************************)
(* Scheduling.  "runall": the cells run once, top to bottom, and the run   *)
(* stops at the first cell that raises.  "kernel": any cell may be run at  *)
(* any time, any number of times.                                          *)
(***************************************************************************)
CellPos == [load |-> 1, info |-> 2, clean |-> 3, describe |-> 4, churn_pie |-> 5,
            more_viz |-> 6, features |-> 7,
            lr |-> 8, dt |-> 9, svc |-> 10, rf |-> 11, gb |-> 12, mlp |-> 13]

Sched(c) ==
    CASE mode = "runall" -> pc = CellPos[c] /\ err = NoErr
      [] mode = "kernel" -> TRUE
      [] OTHER -> FALSE

Advance == pc' = IF mode = "runall" THEN pc + 1 ELSE pc

FreshKernel ==
    /\ pc = 1 /\ err = NoErr /\ diag = FALSE
    /\ df = Unbound /\ churn_counts = NoCounts
    /\ X = Unbound /\ y = NoSeries /\ features = [num |-> <<>>, cat |-> <<>>]
    /\ preprocessor = NoTransformer
    /\ X_train = Unbound /\ X_test = Unbound /\ y_train = NoSeries /\ y_test = NoSeries
    /\ X_train_processed = NoMatrix /\ X_test_processed = NoMatrix
    /\ est = [m \in Models |-> NoEstimator]
    /\ y_pred = [m \in Models |-> NoPrediction]
    /\ acc = [m \in Models |-> NoAccuracy]
    /\ cm = [m \in Models |-> NoConfusion]
    /\ fig = [m \in Models |-> FALSE]
    /\ mpc = [m \in Models |-> "idle"]

Environment ==
    /\ fileExists \in BOOLEAN
    /\ csv \in (IF fileExists THEN Files \cup SkewFiles ELSE {<<>>})
    /\ seed \in Seeds
    /\ fitRaises \in FitFailures

Init == Environment /\ mode = "runall" /\ FreshKernel

(***************************************************************************)
(* The cells.                                                              *)
(***************************************************************************)
\* the handler with its commented-out line 48 (df = pd.DataFrame()) restored
load_cell_placeholder(exists, file, old) ==
    IF exists
    THEN [df |-> read_csv(file), err |-> NoErr, diag |-> FALSE]
    ELSE [df |-> [Unbound EXCEPT !.bound = TRUE], err |-> "FileNotFoundError",
          diag |-> TRUE]

\* lines 44-53: try: df = pd.read_csv(...) except FileNotFoundError: print; raise
load_cell(exists, file, old) ==
    IF exists
    THEN [df |-> read_csv(file), err |-> NoErr, diag |-> FALSE]
    ELSE [df |-> old, err |-> "FileNotFoundError", diag |-> TRUE]

LoadCell ==
    /\ Sched("load") /\ Advance
    /\ \E r \in {load_cell(fileExists, csv, df)} :
          df' = r.df /\ err' = r.err /\ diag' = (diag \/ r.diag)
    /\ UNCHANGED <<envVars, churn_counts, prepVars, modelVars, mpc>>

\* lines 75-81, 146-148, 193-212: they read df and bind nothing
ReadOnlyCell(c) ==
    /\ Sched(c) /\ Advance
    /\ err' = IF df.bound THEN NoErr ELSE "NameError"
    /\ UNCHANGED <<envVars, diag, df, churn_counts, prepVars, modelVars, mpc>>

\* the cell with a drop that passes over a column that is gone
\* (errors='ignore')
clean_cell_lenient(d) ==
    IF ~d.bound THEN [df |-> d, err |-> "NameError"]
    ELSE [df |-> clean_columns(drop(d, "customerID")), err |-> NoErr]

\* lines 105-124
clean_cell(d) ==
    IF ~d.bound THEN [df |-> d, err |-> "NameError"]
    ELSE IF "customerID" \notin d.cols THEN [df |-> d, err |-> "KeyError"]
    ELSE [df |-> clean_columns(drop(d, "customerID")), err |-> NoErr]

CleanCell ==
    /\ Sched("clean") /\ Advance
    /\ \E r \in {clean_cell(df)} : df' = r.df /\ err' = r.err
    /\ UNCHANGED <<envVars, diag, churn_counts, prepVars, modelVars, mpc>>

\* lines 172-182; on a table without rows line 182 divides 0 by len(df) = 0
ChurnPieCell ==
    /\ Sched("churn_pie") /\ Advance
    /\ IF df.bound
       THEN /\ churn_counts' = value_counts(Column(df.rows, "Churn"))
            /\ err' = IF Len(df.rows) = 0 THEN "ZeroDivisionError" ELSE NoErr
       ELSE churn_counts' = churn_counts /\ err' = "NameError"
    /\ UNCHANGED <<envVars, diag, df, prepVars, modelVars, mpc>>

\* lines 239-288
FeatureCell ==
    /\ Sched("features") /\ Advance
    /\ IF ~df.bound
       THEN err' = "NameError" /\ UNCHANGED prepVars
       ELSE \E r \in {feature_cell(df, seed)} :
               /\ X' = r.X /\ y' = r.y /\ features' = r.features
               /\ preprocessor' = r.preprocessor
               /\ err' = IF r.raised THEN "ValueError" ELSE NoErr
               /\ IF r.split.X_train.bound
                  THEN /\ X_train' = r.split.X_train /\ X_test' = r.split.X_test
                       /\ y_train' = r.split.y_train /\ y_test' = r.split.y_test
                  ELSE UNCHANGED <<X_train, X_test, y_train, y_test>>
               /\ X_train_processed' = IF r.X_train_processed.bound
                                       THEN r.X_train_processed ELSE X_train_processed
               /\ X_test_processed' = IF r.X_test_processed.bound
                                      THEN r.X_test_processed ELSE X_test_processed
    /\ UNCHANGED <<envVars, diag, df, churn_counts, modelVars, mpc>>

\* one model cell (lines 329-341, 385-397, 429-443, 466-478, 501-513, 537-549):
\* what it binds and the exception it ends with
reported(e, p, a, c, oldfig) ==
    [est |-> e, y_pred |-> p, acc |-> a, cm |-> c,
     fig |-> IF heatmap_raises(c) THEN oldfig ELSE TRUE,
     err |-> IF heatmap_raises(c) THEN "PlotlyError" ELSE NoErr]

\* a confusion matrix of the predictions against themselves
predicted_self(e, p, yte, oldfig) ==
    reported(e, p, accuracy_score(LabelsOf(yte), p.labels),
             confusion_matrix(p.labels, p.labels), oldfig)

predicted(e, p, yte, oldfig) ==
    reported(e, p, accuracy_score(LabelsOf(yte), p.labels),
             confusion_matrix(LabelsOf(yte), p.labels), oldfig)

fitted_model(e, Xte, yte, oldfig) == predicted(e, predict(e, Xte), yte, oldfig)

\* LogisticRegression(solver='liblinear'), SVC and GradientBoostingClassifier
\* raise ValueError from fit when y_train holds a single class; any fit may
\* raise for reasons of its own (failing)
NeedTwoClasses == {"lr", "svc", "gb"}

fit_raises(m, ys, failing) ==
    m \in failing \/ (m \in NeedTwoClasses /\ Len(ClassesOf(LabelsOf(ys))) < 2)

model_cell(m, old, Xtr, ytr, Xte, yte, raises) ==
    IF ~(Xtr.bound /\ ytr.bound)
    THEN [old EXCEPT !.est = new_estimator(m), !.err = "NameError"]
    ELSE IF raises
    THEN [old EXCEPT !.est = new_estimator(m), !.err = "ValueError"]
    ELSE fitted_model(fit_estimator(new_estimator(m), Xtr, ytr), Xte, yte, old.fig)

\* every cell keeping its predictions under the one name y_pred_lr
pred_name_shared(m) == "lr"

\* the name a model cell gives its predictions: y_pred_lr, y_pred_dt, ...
pred_name(m) == m

Bindings(m) ==
    [est |-> est[m], y_pred |-> y_pred[pred_name(m)], acc |-> acc[m], cm |-> cm[m],
     fig |-> fig[m], err |-> NoErr]

ModelCell(m) ==
    /\ Sched(m) /\ Advance
    /\ \E r \in {model_cell(m, Bindings(m), X_train_processed, y_train,
                            X_test_processed, y_test,
                            fit_raises(m, y_train, fitRaises))} :
          /\ est' = [est EXCEPT ![m] = r.est]
          /\ y_pred' = [y_pred EXCEPT ![pred_name(m)] = r.y_pred]
          /\ acc' = [acc EXCEPT ![m] = r.acc]
          /\ cm' = [cm EXCEPT ![m] = r.cm]
          /\ fig' = [fig EXCEPT ![m] = r.fig]
          /\ err' = r.err
    /\ UNCHANGED <<envVars, diag, df, churn_counts, prepVars, mpc>>

Next ==
    \/ LoadCell
    \/ \E c \in {"info", "describe", "more_viz"} : ReadOnlyCell(c)
    \/ CleanCell
    \/ ChurnPieCell
    \/ FeatureCell
    \/ \E m \in Models : ModelCell(m)

Spec == Init /\ [][Next]_vars

(***************************************************************************)
(* The six trainers side by side ("parallel"): the state is the one the    *)
(* feature cell leaves, and the fit, predict and report statements of the  *)
(* six model cells are interleaved in every order.                         *)
(***************************************************************************)
ParFiles == {MakeFile(MaxRows, k, FALSE, "head_blank", "tail_other") : k \in {2, 3}}

InitPar ==
    /\ fileExists = TRUE
    /\ csv \in ParFiles
    /\ seed \in Seeds
    /\ fitRaises \in FitFailures
    /\ mode = "parallel"
    /\ pc = CellPos["lr"] /\ err = NoErr /\ diag = FALSE
    /\ df = clean_cell(read_csv(csv)).df
    /\ churn_counts = value_counts(Column(df.rows, "Churn"))
    /\ \E r \in {feature_cell(df, seed)} :
          /\ X = r.X /\ y = r.y /\ features = r.features
          /\ preprocessor = r.preprocessor
          /\ X_train = r.split.X_train /\ X_test = r.split.X_test
          /\ y_train = r.split.y_train /\ y_test = r.split.y_test
          /\ X_train_processed = r.X_train_processed
          /\ X_test_processed = r.X_test_processed
    /\ est = [m \in Models |-> NoEstimator]
    /\ y_pred = [m \in Models |-> NoPrediction]
    /\ acc = [m \in Models |-> NoAccuracy]
    /\ cm = [m \in Models |-> NoConfusion]
    /\ fig = [m \in Models |-> FALSE]
    /\ mpc = [m \in Models |-> "idle"]

\* m = Estimator(...); m.fit(X_train_processed, y_train)
ParFit(m) ==
    /\ mode = "parallel" /\ mpc[m] = "idle"
    /\ IF fit_raises(m, y_train, fitRaises)
       THEN /\ est' = [est EXCEPT ![m] = new_estimator(m)]
            /\ mpc' = [mpc EXCEPT ![m] = "failed"]
       ELSE /\ est' = [est EXCEPT ![m] =
                          fit_estimator(new_estimator(m), X_train_processed, y_train)]
            /\ mpc' = [mpc EXCEPT ![m] = "fitted"]
    /\ UNCHANGED <<envVars, pc, err, diag, df, churn_counts, prepVars,
                   y_pred, acc, cm, fig>>

\* y_pred_m = m.predict(X_test_processed)
ParPredict(m) ==
    /\ mode = "parallel" /\ mpc[m] = "fitted"
    /\ y_pred' = [y_pred EXCEPT ![pred_name(m)] = predict(est[m], X_test_processed)]
    /\ mpc' = [mpc EXCEPT ![m] = "predicted"]
    /\ UNCHANGED <<envVars, pc, err, diag, df, churn_counts, prepVars,
                   est, acc, cm, fig>>

\* print accuracy_score(...); cm_m = confusion_matrix(...); the heatmap
ParReport(m) ==
    /\ mode = "parallel" /\ mpc[m] = "predicted"
    /\ \E r \in {predicted(est[m], y_pred[pred_name(m)], y_test, fig[m])} :
          /\ acc' = [acc EXCEPT ![m] = r.acc]
          /\ cm' = [cm EXCEPT ![m] = r.cm]
          /\ fig' = [fig EXCEPT ![m] = r.fig]
    /\ mpc' = [mpc EXCEPT ![m] = "reported"]
    /\ UNCHANGED <<envVars, pc, err, diag, df, churn_counts, prepVars, est, y_pred>>

NextPar ==
    \/ \E m \in Models : ParFit(m)
    \/ \E m \in Models : ParPredict(m)
    \/ \E m \in Models : ParReport(m)

SpecPar == InitPar /\ [][NextPar]_vars

(***************************************************************************)
(* The cells run by hand ("kernel"): from a fresh kernel, any cell at any  *)
(* time, any number of times, each on the names the earlier ones left.     *)
(***************************************************************************)
KernelFiles ==
    {MakeFile(MaxRows, k, odd, tp, "head_other") :
        k \in {0, 2}, odd \in BOOLEAN, tp \in {"plain", "all_blank"}}

\* the model cells differ in the estimator and in the names they bind only;
\* two of them are run here
KernelModels == {"lr", "dt"}

InitKernel ==
    /\ fileExists \in BOOLEAN
    /\ csv \in (IF fileExists THEN KernelFiles ELSE {<<>>})
    /\ seed \in Seeds
    /\ fitRaises \in {f \in FitFailures : f \subseteq KernelModels}
    /\ mode = "kernel"
    /\ FreshKernel

NextKernel ==
    \/ LoadCell
    \/ \E c \in {"info", "describe", "more_viz"} : ReadOnlyCell(c)
    \/ CleanCell
    \/ ChurnPieCell
    \/ FeatureCell
    \/ \E m \in KernelModels : ModelCell(m)

SpecKernel == InitKernel /\ [][NextKernel]_vars

(***************************************************************************)
(* Properties.                                                             *)
(***************************************************************************)
Abs(a) == IF a < 0 THEN 0 - a ELSE a

\* the cleaning cell has run on the loaded table
Cleaned == df.bound /\ "customerID" \notin df.cols

\* the feature cell has split the rows
SplitDone == X_train.bound /\ X_test.bound /\ y_train.bound /\ y_test.bound

IdxOf(frame) == {frame.rows[q].idx : q \in 1..Len(frame.rows)}

Ones(series) == Cardinality({q \in 1..Len(series.rows) : series.rows[q].label = Num(1)})

CellSum(z) == SumSeq([a \in 1..Len(z) |-> SumSeq(z[a])])

DiagSum(z) == SumSeq([a \in 1..Len(z) |-> z[a][a]])

FitCalls(pre) == SelectSeq(pre.calls, LAMBDA c : c.op = "fit")

\* C1: once the transformer is fitted, the calls made on it hold exactly one
\* fit, it is the first call and its argument is the training partition; the
\* stored means, deviations and vocabularies are those of the training rows
\* alone; both processed matrices are that state applied to the two
\* partitions; and no later step changes the transformer.
TransformerState ==
    preprocessor.fitted =>
        /\ Len(FitCalls(preprocessor)) = 1
        /\ preprocessor.calls[1] = [op |-> "fit", arg |-> "X_train"]
        /\ SplitDone
        /\ preprocessor.stats =
              fit_state(preprocessor.num, preprocessor.cat, X_train.rows).stats
        /\ preprocessor.vocab =
              fit_state(preprocessor.num, preprocessor.cat, X_train.rows).vocab
        /\ X_train_processed = transform(preprocessor, X_train.rows)
        /\ X_test_processed = transform(preprocessor, X_test.rows)

C2_NoMissingCharges ==
    Cleaned => \A i \in 1..Len(df.rows) : df.rows[i].TotalCharges.k = "num"

\* C3: after the cleaning cell every label is 0 or 1, and the counts the
\* churn cell prints for 0 and for 1 add up to the number of rows.
C3_LabelsBinary ==
    Cleaned =>
        /\ \A i \in 1..Len(df.rows) : df.rows[i].Churn \in {Num(0), Num(1)}
        /\ churn_counts.bound =>
              counts_get(churn_counts, Num(0)) + counts_get(churn_counts, Num(1))
                 = Len(df.rows)

\* the split is a partition of the rows and keeps each row with its label
SplitIsPairedPartition ==
    /\ IdxOf(X_train) \cap IdxOf(X_test) = {}
    /\ IdxOf(X_train) \cup IdxOf(X_test) = IdxOf(df)
    /\ Cardinality(IdxOf(X_train)) = Len(X_train.rows)
    /\ Cardinality(IdxOf(X_test)) = Len(X_test.rows)
    /\ Len(X_train.rows) + Len(X_test.rows) = Len(df.rows)
    /\ Len(y_train.rows) = Len(X_train.rows)
    /\ Len(y_test.rows) = Len(X_test.rows)
    /\ Len(X_train_processed.rows) = Len(X_train.rows)
    /\ Len(X_test_processed.rows) = Len(X_test.rows)
    /\ \A q \in 1..Len(X_train.rows) : \E i \in 1..Len(df.rows) :
          /\ df.rows[i].idx = X_train.rows[q].idx
          /\ X_train.rows[q] = [df.rows[i] EXCEPT !.Churn = Gone]
          /\ y_train.rows[q] = [idx |-> df.rows[i].idx, label |-> df.rows[i].Churn]
    /\ \A q \in 1..Len(X_test.rows) : \E i \in 1..Len(df.rows) :
          /\ df.rows[i].idx = X_test.rows[q].idx
          /\ X_test.rows[q] = [df.rows[i] EXCEPT !.Churn = Gone]
          /\ y_test.rows[q] = [idx |-> df.rows[i].idx, label |-> df.rows[i].Churn]

\* C4 (as amended): after a split that succeeds, no row is in both partitions,
\* every row is in one, the sizes add up to the number of rows, each row keeps
\* its own label, and the test partition holds 20% of the rows rounded up.
C4_PartitionRoundedUp ==
    SplitDone =>
        /\ SplitIsPairedPartition
        /\ TestSizeDen * Len(X_test.rows) >= TestSizeNum * Len(df.rows)
        /\ TestSizeDen * (Len(X_test.rows) - 1) < TestSizeNum * Len(df.rows)

\* C4 (as stated): the same, with the test partition holding exactly 20%.
C4_PartitionExactFifth ==
    SplitDone =>
        /\ SplitIsPairedPartition
        /\ TestSizeDen * Len(X_test.rows) = TestSizeNum * Len(df.rows)

\* a split of a table whose size is no multiple of five
C4_Witness ==
    /\ SplitDone
    /\ Len(df.rows) % TestSizeDen # 0
    /\ Len(X_test.rows) > 1
    /\ Ones(y_test) > 0 /\ Ones(y_test) < Len(y_test.rows)

\* C5 (as amended): after a split that succeeds, the number of label-1 rows
\* in each partition differs from p times the partition's size by less than
\* one row, p being the proportion of label 1 in the whole table.
C5_WithinOneRow ==
    SplitDone =>
        /\ Abs(Ones(y_train) * Len(y.rows) - Ones(y) * Len(y_train.rows)) < Len(y.rows)
        /\ Abs(Ones(y_test) * Len(y.rows) - Ones(y) * Len(y_test.rows)) < Len(y.rows)

\* C5 (as stated): the proportion of label 1 in each partition is within
\* 0.01 of p.
C5_WithinOnePercent ==
    SplitDone =>
        /\ 100 * Abs(Ones(y_train) * Len(y.rows) - Ones(y) * Len(y_train.rows))
              <= Len(y.rows) * Len(y_train.rows)
        /\ 100 * Abs(Ones(y_test) * Len(y.rows) - Ones(y) * Len(y_test.rows))
              <= Len(y.rows) * Len(y_test.rows)

\* a split in which p times the training size is no whole number of rows
C5_Witness ==
    /\ SplitDone
    /\ Ones(y) > 0 /\ Ones(y) < Len(y.rows)
    /\ (Ones(y) * Len(y_train.rows)) % Len(y.rows) # 0

\* C6: for each model that reported, the cells of its confusion matrix add
\* up to the size of the test partition, and its accuracy is the diagonal
\* of that matrix over the sum of its cells.
C6_MatrixAndAccuracy ==
    \A m \in Models :
        cm[m].bound =>
            /\ CellSum(cm[m].z) = Len(y_test.rows)
            /\ acc[m].bound /\ acc[m].total > 0
            /\ acc[m].correct * CellSum(cm[m].z) = DiagSum(cm[m].z) * acc[m].total

\* all six models reported, one of them with a right and a wrong prediction
C6_Witness ==
    /\ \A m \in Models : cm[m].bound /\ fig[m]
    /\ \E m \in Models :
          /\ DiagSum(cm[m].z) > 0
          /\ DiagSum(cm[m].z) < CellSum(cm[m].z)

\* C7: when the file is missing, the load cell prints its diagnostic and
\* ends with FileNotFoundError, df is never bound, not to a placeholder
\* either, and no later cell runs: nothing is counted, split, fitted or
\* reported.
C7_MissingFileAborts ==
    ~fileExists =>
        /\ pc <= CellPos["load"] + 1
        /\ pc > CellPos["load"] => diag /\ err = "FileNotFoundError"
        /\ ~df.bound /\ ~churn_counts.bound
        /\ ~X.bound /\ ~y.bound /\ ~preprocessor.bound /\ ~SplitDone
        /\ ~X_train_processed.bound /\ ~X_test_processed.bound
        /\ \A m \in Models : ~est[m].bound /\ ~y_pred[m].bound /\ ~acc[m].bound
                             /\ ~cm[m].bound /\ ~fig[m]

\* the load cell has run without its file
C7_Witness == ~fileExists /\ pc = CellPos["load"] + 1 /\ diag /\ err # NoErr

HasOtherLabel == \E i \in 1..Len(csv) : csv[i].Churn \notin {No, Yes}

\* C8: when the file holds a label other than Yes and No, the cleaning cell
\* ends with an exception, and the run never goes on past it with a missing
\* label in the table.
C8_OtherLabelRejected ==
    (fileExists /\ HasOtherLabel /\ pc > CellPos["clean"]) =>
        /\ err # NoErr
        /\ ~(\E i \in 1..Len(df.rows) : IsMissing(df.rows[i].Churn))

FitFailed(m) ==
    est[m].bound /\ ~est[m].fitted /\ SplitDone /\ fit_raises(m, y_train, fitRaises)

RunOver == err # NoErr \/ pc > CellPos["mlp"]

\* C9: when the run is over and the fit of one model has raised, the other
\* five models have been trained and have reported.
C9_OtherFiveStillRun ==
    \A m \in Models :
        (RunOver /\ FitFailed(m)) =>
            \A o \in Models \ {m} : est[o].fitted /\ acc[o].bound /\ cm[o].bound

\* what the cell of model m binds when the cells run alone, top to bottom
FreshBindings ==
    [est |-> NoEstimator, y_pred |-> NoPrediction, acc |-> NoAccuracy,
     cm |-> NoConfusion, fig |-> FALSE, err |-> NoErr]

Sequential(m) ==
    model_cell(m, FreshBindings, X_train_processed, y_train,
               X_test_processed, y_test, fit_raises(m, y_train, fitRaises))

SameResult(m, q) ==
    /\ est[m] = q.est /\ y_pred[m] = q.y_pred /\ acc[m] = q.acc /\ cm[m] = q.cm

SameAsSequential ==
    \A m \in Models :
        /\ mpc[m] = "failed" => fit_raises(m, y_train, fitRaises) /\ ~acc[m].bound
        /\ mpc[m] = "reported" => \A q \in {Sequential(m)} : SameResult(m, q)

\* C10: however the statements of the six trainers are interleaved, no step
\* changes the processed matrices or the label vectors the feature cell
\* left, and each model that has reported holds the estimator, predictions,
\* accuracy and confusion matrix its cell computes from them in the
\* top-to-bottom run.
C10_AnyOrderSameResults ==
    /\ []SameAsSequential
    /\ [][dataVars' = dataVars]_vars

\* the last model has reported while the first is between its predict and
\* its report and the second has not started
C10_Witness ==
    /\ mode = "parallel"
    /\ mpc["mlp"] = "reported" /\ mpc["lr"] = "predicted" /\ mpc["dt"] = "idle"
    /\ mpc["svc"] = "fitted"
    /\ X_train_processed.bound /\ Len(X_test_processed.rows) > 1

\* the cells of the categorical columns that hold the category fit dropped
Reference(pre, rows) ==
    {<<i, j>> \in (1..Len(rows)) \X (1..Len(pre.cat)) :
        Len(pre.vocab[j]) > 0 /\ pre.vocab[j][1] = rows[i][pre.cat[j]].v}

\* C11: once the rows are split, the transform of the test partition has
\* not raised: the processed test matrix is bound, one row per test row,
\* and the feature cell ended without an exception; every test cell whose
\* category no training row had, like every test cell holding the dropped
\* first category, is encoded as indicators that are all zero, and every
\* other test cell as indicators with a single one.
C11_UnseenEncodedZero ==
    SplitDone =>
        /\ preprocessor.fitted /\ X_test_processed.bound
        /\ Len(X_test_processed.rows) = Len(X_test.rows)
        /\ pc = CellPos["features"] + 1 => err = NoErr
        /\ \A i \in 1..Len(X_test.rows) : \A j \in 1..Len(preprocessor.cat) :
              SumSeq(X_test_processed.rows[i].cat[j]) =
                 IF <<i, j>> \in Unseen(preprocessor, X_test.rows)
                               \cup Reference(preprocessor, X_test.rows)
                 THEN 0 ELSE 1

\* a complete run in which a test row holds a category no training row had,
\* in a column that kept an indicator
C11_Witness ==
    /\ SplitDone /\ X_test_processed.bound /\ pc > CellPos["mlp"] /\ err = NoErr
    /\ \E u \in Unseen(preprocessor, X_test.rows) :
          /\ Len(preprocessor.vocab[u[2]]) > 1
          /\ Len(X_test_processed.rows[u[1]].cat[u[2]]) > 0

\* the TotalCharges texts of the file that are numbers, in ascending order
ParseableSorted ==
    SortInts(SelectSeq([i \in 1..Len(csv) |-> csv[i].TotalCharges], LAMBDA t : t >= 0))

\* their median, in the half units of the table's numbers: the middle one,
\* or the mean of the two middle ones
MedianOfParseable ==
    ParseableSorted[(Len(ParseableSorted) + 1) \div 2]
       + ParseableSorted[Len(ParseableSorted) \div 2 + 1]

KeepsParseable ==
    \A i \in 1..Len(df.rows) :
        csv[i].TotalCharges >= 0 => df.rows[i].TotalCharges = Num(2 * csv[i].TotalCharges)

\* C12: after the cleaning cell, every TotalCharges entry whose text was a
\* number holds that number, and every other entry holds one number, the
\* median of the numbers of the whole file.
C12_ImputedWithMedian ==
    Cleaned =>
        /\ KeepsParseable
        /\ \A i \in 1..Len(df.rows) :
              csv[i].TotalCharges < 0 =>
                 /\ Len(ParseableSorted) > 0
                 /\ df.rows[i].TotalCharges = Num(MedianOfParseable)

\* the same for the files that hold a number at all; in the others every
\* entry stays missing
C12_MedianWhenParseable ==
    Cleaned =>
        /\ KeepsParseable
        /\ \A i \in 1..Len(df.rows) :
              csv[i].TotalCharges < 0 =>
                 df.rows[i].TotalCharges =
                    IF Len(ParseableSorted) > 0 THEN Num(MedianOfParseable) ELSE NaN

\* C13: the confusion matrix of every model that reported has two rows and
\* two columns, for the actual and for the predicted labels 0 and 1.
C13_MatrixTwoByTwo ==
    \A m \in Models :
        cm[m].bound =>
            /\ cm[m].labels = <<Num(0), Num(1)>>
            /\ Len(cm[m].z) = 2
            /\ \A a \in 1..Len(cm[m].z) : Len(cm[m].z[a]) = 2

\* the table holds, for every row of the file, the label mapped once
MappedOnce ==
    /\ Len(df.rows) = Len(csv)
    /\ \A i \in 1..Len(df.rows) : df.rows[i].Churn = map_churn(Str(csv[i].Churn))

\* C14: whatever cells are run and in whatever order, a cleaned table holds
\* the labels of the file mapped once (0 for No, 1 for Yes), never mapped
\* again into missing values; and the cleaning cell run on a cleaned table
\* ends with KeyError and leaves the table as it was.
C14_SecondCleaningAborts ==
    /\ [](Cleaned => MappedOnce)
    /\ [][(Cleaned /\ CleanCell) => (df' = df /\ err' = "KeyError")]_vars

\* the cleaning cell has just failed on a cleaned table that holds a churner
C14_Witness ==
    /\ mode = "kernel" /\ Cleaned /\ err = "KeyError"
    /\ \E i \in 1..Len(df.rows) : df.rows[i].Churn = Num(1)
    /\ churn_counts.bound /\ X.bound

====
